---- MODULE Spec2Model ----
(***************************************************************************)
(* Model of graphtransliterator/initialize.py: the rule cost function, the *)
(* on-match lookup compiler, the tokenizer compiler and the parsing-graph  *)
(* compiler (_graph_from), together with the depth-first matching pass of  *)
(* the matching engine that reads the compiled graph.                      *)
(*                                                                         *)
(* Python lists are sequences, dicts are functions over their key set, an  *)
(* optional (None / missing / empty) list is the empty sequence.  Node     *)
(* keys are the 0-based indices of graph.node, as in the source.           *)
(*                                                                         *)
(* A cost is the float log2(1 + 1/(1+N)) = log2((N+2)/(N+1)).  The model   *)
(* keeps the argument of log2 as the exact fraction <<N+2, N+1>>; log2 is  *)
(* strictly increasing, so two costs compare as their fractions do         *)
(* (cross-multiplied).  The default edge cost 1 of line 174 is log2(2/1),  *)
(* the fraction <<2, 1>>.                                                  *)
(***************************************************************************)
EXTENDS Integers, Sequences, FiniteSets, TLC

VARIABLES
    pc,             \* position of the running compile step
    raw,            \* list of raw rule dicts handed to the compiler
    rules,          \* list of TransliterationRule (argument of _graph_from)
    node,           \* graph.node : node key -> attribute dict
    edge,           \* graph.edge : <<head, tail>> -> attribute dict
    rule_key,       \* index of the outer loop of _graph_from (line 155)
    tok_i,          \* index of the inner loop over rule.tokens (line 157)
    parent_key,     \* parent_key of _graph_from
    node_key,       \* index of the second loop of _graph_from (line 213)
    input,          \* token sequence given to the matching engine
    token_i,        \* position in input at which a match is attempted
    selected,       \* rule key selected by the matching engine, -1 if none
    om_tokens,      \* token table handed to _onmatch_rules_lookup
    onmatch_rules,  \* list of OnMatchRule handed to _onmatch_rules_lookup
    onmatch_lookup, \* the lookup being built
    rule_i,         \* index of the loop of _onmatch_rules_lookup (line 99)
    ruleA, ruleB,   \* two raw rules whose costs are compared
    costA, costB,   \* their costs
    alphabet,       \* the list argument of _tokenizer_from
    regex           \* the alternation compiled by _tokenizer_from

vars == <<pc, raw, rules, node, edge, rule_key, tok_i, parent_key, node_key,
          input, token_i, selected, om_tokens, onmatch_rules, onmatch_lookup, rule_i,
          ruleA, ruleB, costA, costB, alphabet, regex>>

graphVars == <<node, edge, rule_key, tok_i, parent_key, node_key>>
matchVars == <<input, token_i, selected>>
onmatchVars == <<om_tokens, onmatch_rules, onmatch_lookup, rule_i>>
costVars == <<ruleA, ruleB, costA, costB>>
tokenizerVars == <<alphabet, regex>>

----------------------------------------------------------------------------
(* Bounds and input universes *)

MaxRules == 3
MaxOnMatchRules == 3
MaxFieldLen == 2
MaxAlphabet == 3
MaxInput == 3

Tokens == {"a", "b"}
Classes == {"x", "y"}

EmptyMap == [k \in {} |-> 0]
NoRule == [production |-> "", prev_classes |-> <<>>, prev_tokens |-> <<>>,
           tokens |-> <<>>, next_tokens |-> <<>>, next_classes |-> <<>>]

SeqsUpTo(S, n) == UNION {[1..k -> S] : k \in 0..n}

\* token sequences and context fields the raw rules are drawn from
RuleTokenSeqs == {<<"a">>, <<"b">>, <<"a", "b">>}

Context(pc_, pt, nt, nc) ==
    [prev_classes |-> pc_, prev_tokens |-> pt, next_tokens |-> nt,
     next_classes |-> nc]

RuleContexts ==
    {Context(<<>>, <<>>, <<>>, <<>>),
     Context(<<>>, <<>>, <<"b">>, <<>>),
     Context(<<"x">>, <<>>, <<>>, <<>>),
     Context(<<>>, <<"b">>, <<>>, <<"y">>)}

RawRule(tokens, c) ==
    [production |-> "p", prev_classes |-> c.prev_classes,
     prev_tokens |-> c.prev_tokens, tokens |-> tokens,
     next_tokens |-> c.next_tokens, next_classes |-> c.next_classes]

\* raw rules as the rule model defines them: tokens is not empty
RawRules == {RawRule(t, c) : t \in RuleTokenSeqs, c \in RuleContexts}

\* raw rule dicts of any shape, tokens possibly empty
AnyRawRules == {RawRule(t, c) : t \in RuleTokenSeqs \cup {<<>>}, c \in RuleContexts}

----------------------------------------------------------------------------
(* Costs *)

\* a > b for two costs held as fractions
CostGT(a, b) == a[1] * b[2] > b[1] * a[2]

CostLE(a, b) == ~CostGT(a, b)

\* the default of curr_edge.get('cost', 1)
DefaultCost == <<2, 1>>

_num_tokens_of(rule) ==
    Len(rule.prev_classes) + Len(rule.prev_tokens) + Len(rule.tokens)
        + Len(rule.next_tokens) + Len(rule.next_classes)

_cost_of_inverted(rule) == <<1 + (1 + _num_tokens_of(rule)), 1>>

_cost_of(rule) == <<(1 + _num_tokens_of(rule)) + 1, 1 + _num_tokens_of(rule)>>

\* the record constructor of rules.py: stores the fields it is given
TransliterationRule(production, prev_classes, prev_tokens, tokens, next_tokens, next_classes, cost) ==
    [production |-> production, prev_classes |-> prev_classes,
     prev_tokens |-> prev_tokens, tokens |-> tokens,
     next_tokens |-> next_tokens, next_classes |-> next_classes,
     cost |-> cost]

_transliteration_rule_of(rule) ==
    TransliterationRule(rule.production, rule.prev_classes, rule.prev_tokens,
                        rule.tokens, rule.next_tokens, rule.next_classes,
                        _cost_of(rule))

----------------------------------------------------------------------------
(* DirectedGraph (graphs.py): index-based node table and edge table *)

Size(f) == Cardinality(DOMAIN f)

\* add_node appends node_data; the new key is the old len(graph.node)
add_node(nodes, node_data) ==
    [k \in 0..Size(nodes) |-> IF k < Size(nodes) THEN nodes[k] ELSE node_data]

\* add_edge stores edge_data at graph.edge[head][tail]
add_edge(edges, head, tail, edge_data) ==
    [e \in DOMAIN edges \cup {<<head, tail>>} |->
        IF e = <<head, tail>> THEN edge_data ELSE edges[e]]

NodeData(type, token, rk) ==
    [type |-> type, token |-> token, rule_key |-> rk,
     accepting |-> (type = "rule"),
     token_children |-> EmptyMap, rule_children |-> <<>>,
     ordered_children |-> EmptyMap]

EdgeData(token, has_cost, cost, constraints) ==
    [token |-> token, has_cost |-> has_cost, cost |-> cost,
     constraints |-> constraints]

MapPut(m, k, v) == [x \in DOMAIN m \cup {k} |-> IF x = k THEN v ELSE m[x]]

\* left-biased union of two dicts with disjoint key sets
MapUnion(m1, m2) ==
    [x \in DOMAIN m1 \cup DOMAIN m2 |-> IF x \in DOMAIN m1 THEN m1[x] ELSE m2[x]]

Range(s) == {s[i] : i \in DOMAIN s}

----------------------------------------------------------------------------
(* sorted(list, key=...) and list.sort(key=...): a stable ascending sort *)

\* insertion of x behind every element whose key is <= key[x]
InsertStable(s, x, key) ==
    LET p == Cardinality({i \in DOMAIN s : CostLE(key[s[i]], key[x])})
    IN SubSeq(s, 1, p) \o <<x>> \o SubSeq(s, p + 1, Len(s))

\* insertion of x in front of every element whose key is >= key[x]
InsertUnstable(s, x, key) ==
    LET p == Cardinality({i \in DOMAIN s : CostGT(key[x], key[s[i]])})
    IN SubSeq(s, 1, p) \o <<x>> \o SubSeq(s, p + 1, Len(s))

RECURSIVE sorted_unstable(_, _)
sorted_unstable(s, key) ==
    IF s = <<>> THEN <<>>
    ELSE InsertUnstable(sorted_unstable(SubSeq(s, 1, Len(s) - 1), key),
                        s[Len(s)], key)

unsorted(s, key) == s

RECURSIVE sorted(_, _)
sorted(s, key) ==
    IF s = <<>> THEN <<>>
    ELSE InsertStable(sorted(SubSeq(s, 1, Len(s) - 1), key), s[Len(s)], key)

----------------------------------------------------------------------------
(* _graph_from, first loop: one rule at a time, one token at a time *)

\* lines 173-176: the edge keeps the first cost it was given
keep_first_cost(curr_edge, rule_cost) ==
    IF curr_edge.has_cost THEN curr_edge
    ELSE [curr_edge EXCEPT !.has_cost = TRUE, !.cost = rule_cost]

\* lines 173-176: lower the cost of the edge to the rule's cost
lower_cost(curr_edge, rule_cost) ==
    LET curr_cost == IF curr_edge.has_cost THEN curr_edge.cost ELSE DefaultCost
    IN IF CostGT(curr_cost, rule_cost)
       THEN [curr_edge EXCEPT !.has_cost = TRUE, !.cost = rule_cost]
       ELSE curr_edge

ConstraintFields == {"prev_classes", "prev_tokens", "next_tokens", "next_classes"}

constraints_without_next(rule) ==
    [f \in {g \in {"prev_classes", "prev_tokens"} : rule[g] # <<>>} |-> rule[f]]

\* lines 199-211: the constraints dict holds the non-empty context fields;
\* no dict is attached when all four are empty
constraints_of(rule) ==
    [f \in {g \in ConstraintFields : rule[g] # <<>>} |-> rule[f]]

leaf_cost_minimized(edges, parent, rule) ==
    IF \E e \in DOMAIN edges : e[2] = parent
    THEN edges[CHOOSE e \in DOMAIN edges : e[2] = parent].cost
    ELSE rule.cost

\* line 196: the edge to the rule leaf carries the rule's own cost
leaf_cost(edges, parent, rule) == rule.cost

\* lines 157-178, one iteration of the loop over rule.tokens
TokenStep ==
    /\ pc = "insert"
    /\ rule_key < Len(rules)
    /\ tok_i <= Len(rules[rule_key + 1].tokens)
    /\ LET rule == rules[rule_key + 1]
           token == rule.tokens[tok_i]
           parent_node == node[parent_key]
           token_children == parent_node.token_children
           isNew == token \notin DOMAIN token_children
           token_node_key == IF isNew THEN Size(node) ELSE token_children[token]
           node1 == IF isNew
                    THEN [add_node(node, NodeData("token", token, -1))
                             EXCEPT ![parent_key].token_children =
                                        MapPut(token_children, token, token_node_key)]
                    ELSE node
           edge1 == IF isNew
                    THEN add_edge(edge, parent_key, token_node_key,
                                  EdgeData(token, FALSE, DefaultCost, EmptyMap))
                    ELSE edge
       IN /\ node' = node1
          /\ edge' = [edge1 EXCEPT ![<<parent_key, token_node_key>>] =
                                       lower_cost(@, rule.cost)]
          /\ parent_key' = token_node_key
          /\ tok_i' = tok_i + 1
    /\ UNCHANGED <<pc, raw, rules, rule_key, node_key>>
    /\ UNCHANGED <<matchVars, onmatchVars, costVars, tokenizerVars>>

\* lines 180-211, the end of one iteration of the loop over the rules
AddRuleLeaf ==
    /\ pc = "insert"
    /\ rule_key < Len(rules)
    /\ tok_i > Len(rules[rule_key + 1].tokens)
    /\ LET rule == rules[rule_key + 1]
           rule_node_key == Size(node)
           node1 == add_node(node, NodeData("rule", "", rule_key))
           rule_children == Append(node1[parent_key].rule_children, rule_node_key)
           key == [x \in Range(rule_children) |-> rules[node1[x].rule_key + 1].cost]
       IN /\ node' = [node1 EXCEPT ![parent_key].rule_children =
                                       sorted(rule_children, key)]
          /\ edge' = add_edge(edge, parent_key, rule_node_key,
                              EdgeData("", TRUE, leaf_cost(edge, parent_key, rule),
                                       constraints_of(rule)))
    /\ rule_key' = rule_key + 1
    /\ parent_key' = 0
    /\ tok_i' = 1
    /\ pc' = IF rule_key + 1 = Len(rules) THEN "order" ELSE "insert"
    /\ UNCHANGED <<raw, rules, node_key>>
    /\ UNCHANGED <<matchVars, onmatchVars, costVars, tokenizerVars>>

----------------------------------------------------------------------------
(* _graph_from, second loop: ordered_children of every node *)

rules_before_token(token_key, rule_children_keys) ==
    rule_children_keys \o <<token_key>>

\* lines 232-237: the token child, then the rule children
candidates(token_key, rule_children_keys) ==
    <<token_key>> \o rule_children_keys

\* lines 214-247 for the node at nk
order_children(nodes, edges, nk) ==
    LET n == nodes[nk]
        rule_children_keys == n.rule_children
        token_children == n.token_children
        children == Range(rule_children_keys)
                        \cup {token_children[t] : t \in DOMAIN token_children}
        cost == [k \in children |-> edges[<<nk, k>>].cost]
        of_rules == IF rule_children_keys # <<>>
                    THEN [k \in {"__rules__"} |-> sorted(rule_children_keys, cost)]
                    ELSE EmptyMap
        of_tokens == [t \in DOMAIN token_children |->
                         sorted(candidates(token_children[t], rule_children_keys),
                                cost)]
    IN [n EXCEPT !.ordered_children = MapUnion(of_rules, of_tokens),
                 !.rule_children = <<>>,
                 !.token_children = EmptyMap]

OrderChildren ==
    /\ pc = "order"
    /\ node_key < Size(node)
    /\ node' = [node EXCEPT ![node_key] = order_children(node, edge, node_key)]
    /\ node_key' = node_key + 1
    /\ pc' = IF node_key + 1 = Size(node) THEN "done" ELSE "order"
    /\ UNCHANGED <<raw, rules, edge, rule_key, tok_i, parent_key>>
    /\ UNCHANGED <<matchVars, onmatchVars, costVars, tokenizerVars>>

----------------------------------------------------------------------------
(* The graph compile run: raw rules -> rules -> graph *)

\* the caller converts every raw rule with _transliteration_rule_of
ConvertRules ==
    /\ pc = "convert"
    /\ rules' = [i \in 1..Len(raw) |-> _transliteration_rule_of(raw[i])]
    /\ pc' = "graph"
    /\ UNCHANGED <<raw, graphVars>>
    /\ UNCHANGED <<matchVars, onmatchVars, costVars, tokenizerVars>>

\* lines 152-153: a new graph whose node 0 is the Start node
NewGraph ==
    /\ pc = "graph"
    /\ node' = add_node(EmptyMap, NodeData("Start", "", -1))
    /\ edge' = EmptyMap
    /\ rule_key' = 0
    /\ parent_key' = 0
    /\ tok_i' = 1
    /\ node_key' = 0
    /\ pc' = IF Len(rules) = 0 THEN "order" ELSE "insert"
    /\ UNCHANGED <<raw, rules>>
    /\ UNCHANGED <<matchVars, onmatchVars, costVars, tokenizerVars>>

IdleGraph ==
    /\ node = EmptyMap /\ edge = EmptyMap
    /\ rule_key = 0 /\ tok_i = 1 /\ parent_key = 0 /\ node_key = 0
    /\ raw = <<>> /\ rules = <<>>

IdleMatch == input = <<>> /\ token_i = 1 /\ selected = -1

IdleOnMatch ==
    /\ om_tokens = EmptyMap /\ onmatch_rules = <<>>
    /\ onmatch_lookup = EmptyMap /\ rule_i = 0

IdleCost ==
    /\ ruleA = NoRule /\ ruleB = NoRule
    /\ costA = DefaultCost /\ costB = DefaultCost

IdleTokenizer == alphabet = <<>> /\ regex = <<>>

InitGraph ==
    /\ pc = "convert"
    /\ raw \in SeqsUpTo(RawRules, MaxRules)
    /\ rules = <<>>
    /\ node = EmptyMap /\ edge = EmptyMap
    /\ rule_key = 0 /\ tok_i = 1 /\ parent_key = 0 /\ node_key = 0
    /\ IdleMatch /\ IdleOnMatch /\ IdleCost /\ IdleTokenizer

InitCompile ==
    /\ pc = "convert"
    /\ raw \in SeqsUpTo(AnyRawRules, MaxRules)
    /\ rules = <<>>
    /\ node = EmptyMap /\ edge = EmptyMap
    /\ rule_key = 0 /\ tok_i = 1 /\ parent_key = 0 /\ node_key = 0
    /\ IdleMatch /\ IdleOnMatch /\ IdleCost /\ IdleTokenizer

NextGraph == ConvertRules \/ NewGraph \/ TokenStep \/ AddRuleLeaf \/ OrderChildren

\* the compile run over well-formed rules
SpecGraph == InitGraph /\ [][NextGraph]_vars

\* the compile run over every raw rule dict the converter is handed
SpecCompile == InitCompile /\ [][NextGraph]_vars

----------------------------------------------------------------------------
(* Reading a compiled graph *)

Done == pc = "done"

NodeKeys == DOMAIN node

Children(p) == {e[2] : e \in {d \in DOMAIN edge : d[1] = p}}

Parents(k) == {e[1] : e \in {d \in DOMAIN edge : d[2] = k}}

TokenNodes == {k \in NodeKeys : node[k].type = "token"}

RuleNodes == {k \in NodeKeys : node[k].type = "rule"}

ParentOf(k) == CHOOSE p \in Parents(k) : TRUE

\* the tokens spelled on the way from Start to node k
RECURSIVE PathTo(_)
PathTo(k) ==
    IF k = 0 \/ Parents(k) = {} THEN <<>>
    ELSE IF node[k].type = "token"
         THEN Append(PathTo(ParentOf(k)), node[k].token)
         ELSE PathTo(ParentOf(k))

IsPrefix(p, s) == Len(p) <= Len(s) /\ SubSeq(s, 1, Len(p)) = p

\* the rules (1-based positions in the rule list) that pass through node k
RulesThrough(k) == {i \in DOMAIN rules : IsPrefix(PathTo(k), rules[i].tokens)}

EdgeCost(p, k) == edge[<<p, k>>].cost

CostEQ(a, b) == ~CostGT(a, b) /\ ~CostGT(b, a)

\* position of x in the list s (0 when absent)
IndexOf(s, x) == IF x \in Range(s) THEN CHOOSE i \in DOMAIN s : s[i] = x ELSE 0

TokenKeys(k) == DOMAIN node[k].ordered_children \ {"__rules__"}

----------------------------------------------------------------------------
(* C1 *)

\* C1: after _graph_from, the cost on every edge parent -> Token node is the
\* minimum rule.cost over the rules whose token sequence has the path from
\* Start to that Token node as a prefix, whatever the order of the rule list.
C1_PrefixCostIsMinimum ==
    Done =>
        \A k \in TokenNodes :
            LET c == edge[<<ParentOf(k), k>>]
            IN /\ c.has_cost
               /\ \E i \in RulesThrough(k) : CostEQ(rules[i].cost, c.cost)
               /\ \A i \in RulesThrough(k) : CostLE(c.cost, rules[i].cost)

\* a Token edge created by a costlier rule and lowered by a later, cheaper one
C1_Witness ==
    /\ Done
    /\ \E k \in TokenNodes :
          LET first == CHOOSE i \in RulesThrough(k) :
                           \A j \in RulesThrough(k) : i <= j
          IN CostGT(rules[first].cost, EdgeCost(ParentOf(k), k))

----------------------------------------------------------------------------
(* C3 *)

\* C3 as stated: after _graph_from, at every node and for every token key t,
\* ordered_children[t] is sorted strictly ascending by edge cost.
C3_StrictlyAscending ==
    Done =>
        \A k \in NodeKeys : \A t \in TokenKeys(k) :
            LET l == node[k].ordered_children[t]
            IN \A i \in 1..(Len(l) - 1) :
                   CostGT(EdgeCost(k, l[i + 1]), EdgeCost(k, l[i]))

\* C3 amended: after _graph_from, at every node and for every token key t,
\* ordered_children[t] holds the Token child for t and all Rule leaves of the
\* node, sorted ascending by edge cost, candidates of equal cost allowed.
C3_Ascending ==
    Done =>
        \A k \in NodeKeys : \A t \in TokenKeys(k) :
            LET l == node[k].ordered_children[t]
            IN /\ \A i \in 1..(Len(l) - 1) :
                      CostLE(EdgeCost(k, l[i]), EdgeCost(k, l[i + 1]))
               /\ Range(l) = {c \in Children(k) :
                                 node[c].type = "rule" \/ node[c].token = t}
               /\ Len(l) = Cardinality(Range(l))

\* a candidate list where the sort moved a Rule leaf in front of the Token child
C3_Witness ==
    /\ Done
    /\ \E k \in NodeKeys : \E t \in TokenKeys(k) :
          LET l == node[k].ordered_children[t]
          IN /\ Len(l) >= 3
             /\ node[l[1]].type = "rule"
             /\ \E i \in 2..Len(l) : node[l[i]].type = "token"

----------------------------------------------------------------------------
(* C4 *)

\* C4: after _graph_from, two Rule leaves of equal cost under the same node
\* appear in the '__rules__' bucket and in every ordered_children[t] in the
\* order in which their rules were defined in the rule list.
C4_TiesKeepDefinitionOrder ==
    Done =>
        \A k \in NodeKeys : \A t \in DOMAIN node[k].ordered_children :
            LET l == node[k].ordered_children[t]
            IN \A i, j \in DOMAIN l :
                   (/\ i < j
                    /\ node[l[i]].type = "rule" /\ node[l[j]].type = "rule"
                    /\ CostEQ(EdgeCost(k, l[i]), EdgeCost(k, l[j])))
                   => node[l[i]].rule_key < node[l[j]].rule_key

\* three Rule leaves under one node, the last two defined of equal cost and a
\* cheaper one defined after them
C4_Witness ==
    /\ Done
    /\ \E k \in NodeKeys :
          /\ "__rules__" \in DOMAIN node[k].ordered_children
          /\ LET l == node[k].ordered_children["__rules__"]
             IN /\ Len(l) = 3
                /\ CostEQ(EdgeCost(k, l[2]), EdgeCost(k, l[3]))
                /\ CostGT(EdgeCost(k, l[2]), EdgeCost(k, l[1]))
                /\ node[l[1]].rule_key > node[l[3]].rule_key

----------------------------------------------------------------------------
(* C8 *)

\* C8: a raw rule whose tokens are empty is rejected by
\* _transliteration_rule_of, so no rule with empty tokens is in the rule list
\* of _graph_from and no Rule leaf is attached directly to the Start node.
C8_EmptyTokensRejected ==
    /\ \A i \in DOMAIN rules : rules[i].tokens # <<>>
    /\ \A k \in RuleNodes : 0 \notin Parents(k)

----------------------------------------------------------------------------
(* C9 *)

----------------------------------------------------------------------------
(* C10 *)

\* C10: after _graph_from, when the edge cost of a node's Token child for t
\* equals the cost of one of the node's Rule leaves, the Token child precedes
\* that Rule leaf in ordered_children[t], whatever the definition order.
C10_TokenChildFirstOnTie ==
    Done =>
        \A k \in NodeKeys : \A t \in TokenKeys(k) :
            LET l == node[k].ordered_children[t]
            IN \A i, j \in DOMAIN l :
                   (/\ node[l[i]].type = "token" /\ node[l[j]].type = "rule"
                    /\ CostEQ(EdgeCost(k, l[i]), EdgeCost(k, l[j])))
                   => i < j

\* a tie between a Token child and a Rule leaf whose rule was defined before
\* every rule that passes through the Token child
C10_Witness ==
    /\ Done
    /\ \E k \in NodeKeys : \E t \in TokenKeys(k) :
          LET l == node[k].ordered_children[t]
          IN \E i, j \in DOMAIN l :
                 /\ node[l[i]].type = "token" /\ node[l[j]].type = "rule"
                 /\ CostEQ(EdgeCost(k, l[i]), EdgeCost(k, l[j]))
                 /\ \A r \in RulesThrough(l[i]) : node[l[j]].rule_key + 1 < r

----------------------------------------------------------------------------
(* Matching engine: the depth-first, backtracking search for one position *)

\* the token table of the matching run
TokenClasses == [t \in Tokens |-> IF t = "a" THEN {"x"} ELSE {"y"}]

\* every token of want is found in the input inp from position at on
match_tokens_at(inp, at, want) ==
    /\ at >= 1
    /\ at + Len(want) - 1 <= Len(inp)
    /\ \A i \in DOMAIN want : inp[at + i - 1] = want[i]

\* every token of inp from position at on carries the wanted class
match_classes_at(inp, at, want) ==
    /\ at >= 1
    /\ at + Len(want) - 1 <= Len(inp)
    /\ \A i \in DOMAIN want : want[i] \in TokenClasses[inp[at + i - 1]]

Field(constraints, f) ==
    IF f \in DOMAIN constraints THEN constraints[f] ELSE <<>>

\* the constraints of an edge to a Rule leaf against the input: the match
\* starts at start and the first token behind it is at pos
match_constraints(inp, constraints, start, pos) ==
    LET pt == Field(constraints, "prev_tokens")
        pcl == Field(constraints, "prev_classes")
        nt == Field(constraints, "next_tokens")
        ncl == Field(constraints, "next_classes")
    IN /\ match_tokens_at(inp, start - Len(pt), pt)
       /\ match_classes_at(inp, start - Len(pt) - Len(pcl), pcl)
       /\ match_tokens_at(inp, pos, nt)
       /\ match_classes_at(inp, pos + Len(nt), ncl)

RECURSIVE search_node(_, _, _, _)
RECURSIVE try_candidates(_, _, _, _, _, _)

\* steps 2-3: the candidates of node nk for the token at pos, in list order
search_node(inp, nk, pos, start) ==
    LET oc == node[nk].ordered_children
        cands == IF pos <= Len(inp) /\ inp[pos] \in DOMAIN oc
                 THEN oc[inp[pos]]
                 ELSE IF "__rules__" \in DOMAIN oc THEN oc["__rules__"]
                      ELSE <<>>
    IN try_candidates(inp, cands, 1, nk, pos, start)

\* a Token candidate is descended into, and left again when nothing below it
\* verifies; a Rule candidate is selected when its constraints verify
try_candidates(inp, cands, i, nk, pos, start) ==
    IF i > Len(cands) THEN -1
    ELSE LET c == cands[i]
             r == IF node[c].type = "token"
                  THEN search_node(inp, c, pos + 1, start)
                  ELSE IF match_constraints(inp, edge[<<nk, c>>].constraints,
                                            start, pos)
                       THEN node[c].rule_key
                       ELSE -1
         IN IF r # -1 THEN r
            ELSE try_candidates(inp, cands, i + 1, nk, pos, start)

match_at(inp, start) == search_node(inp, 0, start, start)

MatchAt ==
    /\ pc = "done"
    /\ \E inp \in SeqsUpTo(Tokens, MaxInput) \ {<<>>} :
          \E at \in 1..Len(inp) :
              /\ input' = inp
              /\ token_i' = at
              /\ selected' = match_at(inp, at)
    /\ pc' = "matched"
    /\ UNCHANGED <<raw, rules, graphVars>>
    /\ UNCHANGED <<onmatchVars, costVars, tokenizerVars>>

NextMatch == NextGraph \/ MatchAt

\* the compile run over well-formed rules, followed by one match attempt
SpecMatch == InitGraph /\ [][NextMatch]_vars

\* rule i (1-based) matches at token_i: its tokens and its context
Applicable(i) ==
    /\ match_tokens_at(input, token_i, rules[i].tokens)
    /\ match_constraints(input, constraints_of(rules[i]), token_i,
                         token_i + Len(rules[i].tokens))

----------------------------------------------------------------------------
(* C2 *)

\* C2: the rule the traversal selects at a position has the minimum cost
\* among all rules whose tokens and context constraints match there (and a
\* rule is selected whenever one matches).
C2_SelectsCheapestApplicable ==
    pc = "matched" =>
        /\ (\E i \in DOMAIN rules : Applicable(i)) => selected # -1
        /\ selected # -1 =>
               /\ Applicable(selected + 1)
               /\ \A i \in DOMAIN rules :
                      Applicable(i) => CostLE(rules[selected + 1].cost, rules[i].cost)

\* What the traversal does guarantee at a position: a rule is selected when
\* one matches, the selected rule matches, and it is the cheapest of the
\* matching rules that have its token sequence.
C2_SelectsCheapestOfItsNode ==
    pc = "matched" =>
        /\ (\E i \in DOMAIN rules : Applicable(i)) => selected # -1
        /\ selected # -1 =>
               /\ Applicable(selected + 1)
               /\ \A i \in DOMAIN rules :
                      (Applicable(i) /\ rules[i].tokens = rules[selected + 1].tokens)
                      => CostLE(rules[selected + 1].cost, rules[i].cost)

----------------------------------------------------------------------------
(* _onmatch_rules_lookup *)

\* class sequences the on-match rules are drawn from (never empty)
ClassSeqs == {<<"x">>, <<"y">>, <<"x", "y">>}

OnMatchRule(prev_classes, next_classes, production) ==
    [prev_classes |-> prev_classes, next_classes |-> next_classes,
     production |-> production]

OnMatchRules == {OnMatchRule(p, n, "-") : p \in ClassSeqs, n \in ClassSeqs}

\* token tables: every token carries a non-empty set of classes
TokenTables == [Tokens -> (SUBSET Classes) \ {{}}]

first_prev_class(rule) == rule.prev_classes[1]

\* line 108: rule.prev_classes[-1]
last_prev_class(rule) == rule.prev_classes[Len(rule.prev_classes)]

\* line 103: rule.next_classes[0]
first_next_class(rule) == rule.next_classes[1]

\* lines 101-115 for the rule at index i: i is appended to the list of every
\* pair (token_key, prev_token_key) that qualifies, the dicts and the list
\* being created when missing
add_onmatch_rule(lookup, tokens, i, rule) ==
    LET currs == {t \in DOMAIN tokens : first_next_class(rule) \in tokens[t]}
        prevs == {t \in DOMAIN tokens : last_prev_class(rule) \in tokens[t]}
        old(c) == IF c \in DOMAIN lookup THEN lookup[c] ELSE EmptyMap
        lst(c, q) == IF q \in DOMAIN old(c) THEN old(c)[q] ELSE <<>>
    IN IF prevs = {} THEN lookup
       ELSE [c \in DOMAIN lookup \cup currs |->
                IF c \in currs
                THEN [q \in DOMAIN old(c) \cup prevs |->
                         IF q \in prevs THEN Append(lst(c, q), i) ELSE old(c)[q]]
                ELSE lookup[c]]

\* lines 99-115, one iteration of the loop over the on-match rules
OnMatchRuleStep ==
    /\ pc = "onmatch"
    /\ rule_i < Len(onmatch_rules)
    /\ onmatch_lookup' = add_onmatch_rule(onmatch_lookup, om_tokens, rule_i,
                                          onmatch_rules[rule_i + 1])
    /\ rule_i' = rule_i + 1
    /\ UNCHANGED <<pc, om_tokens, onmatch_rules>>
    /\ UNCHANGED <<raw, rules, graphVars, matchVars, costVars, tokenizerVars>>

\* line 116
OnMatchReturn ==
    /\ pc = "onmatch"
    /\ rule_i = Len(onmatch_rules)
    /\ pc' = "onmatch_done"
    /\ UNCHANGED <<onmatchVars>>
    /\ UNCHANGED <<raw, rules, graphVars, matchVars, costVars, tokenizerVars>>

InitOnMatch ==
    /\ pc = "onmatch"
    /\ om_tokens \in TokenTables
    /\ onmatch_rules \in SeqsUpTo(OnMatchRules, MaxOnMatchRules)
    /\ onmatch_lookup = EmptyMap
    /\ rule_i = 0
    /\ IdleGraph /\ IdleMatch /\ IdleCost /\ IdleTokenizer

NextOnMatch == OnMatchRuleStep \/ OnMatchReturn

SpecOnMatch == InitOnMatch /\ [][NextOnMatch]_vars

\* the list stored for (curr, prev), empty when there is no entry
Lookup(curr, prev) ==
    IF curr \in DOMAIN onmatch_lookup /\ prev \in DOMAIN onmatch_lookup[curr]
    THEN onmatch_lookup[curr][prev]
    ELSE <<>>

----------------------------------------------------------------------------
(* C5 *)

\* C5: the lookup returned by _onmatch_rules_lookup holds rule index i under
\* lookup[curr][prev] exactly when next_classes[0] of rule i is a class of
\* curr and prev_classes[-1] of rule i is a class of prev; every list is in
\* strictly ascending index order, and a pair without a qualifying rule has
\* no entry.
C5_LookupIsExactPrefilter ==
    pc = "onmatch_done" =>
        /\ \A curr \in Tokens, prev \in Tokens :
              LET l == Lookup(curr, prev)
              IN /\ \A i \in 0..(Len(onmatch_rules) - 1) :
                        (i \in Range(l)) <=>
                            (/\ onmatch_rules[i + 1].next_classes[1]
                                    \in om_tokens[curr]
                             /\ onmatch_rules[i + 1].prev_classes[
                                    Len(onmatch_rules[i + 1].prev_classes)]
                                    \in om_tokens[prev])
                 /\ Range(l) \subseteq 0..(Len(onmatch_rules) - 1)
                 /\ \A j \in 1..(Len(l) - 1) : l[j] < l[j + 1]
        /\ DOMAIN onmatch_lookup \subseteq Tokens
        /\ \A curr \in DOMAIN onmatch_lookup :
              /\ DOMAIN onmatch_lookup[curr] # {}
              /\ DOMAIN onmatch_lookup[curr] \subseteq Tokens
              /\ \A prev \in DOMAIN onmatch_lookup[curr] :
                    onmatch_lookup[curr][prev] # <<>>

\* a lookup with a list that skips a rule, under a rule whose prev_classes has
\* two classes, and with a pair that has no entry
C5_Witness ==
    /\ pc = "onmatch_done"
    /\ \E curr \in Tokens, prev \in Tokens :
          /\ Lookup(curr, prev) = <<0, 2>>
          /\ Len(onmatch_rules[1].prev_classes) = 2
    /\ \E curr \in DOMAIN onmatch_lookup :
          DOMAIN onmatch_lookup[curr] # Tokens

----------------------------------------------------------------------------
(* _cost_of *)

FieldSeqs == SeqsUpTo({"t"}, MaxFieldLen)

\* raw rule dicts with every field of every length up to MaxFieldLen
CostRules ==
    {[production |-> "p", prev_classes |-> p1, prev_tokens |-> p2,
      tokens |-> t, next_tokens |-> n1, next_classes |-> n2] :
        p1 \in FieldSeqs, p2 \in FieldSeqs, t \in FieldSeqs,
        n1 \in FieldSeqs, n2 \in FieldSeqs}

ComputeCosts ==
    /\ pc = "cost"
    /\ costA' = _cost_of(ruleA)
    /\ costB' = _cost_of(ruleB)
    /\ pc' = "cost_done"
    /\ UNCHANGED <<ruleA, ruleB>>
    /\ UNCHANGED <<raw, rules, graphVars, matchVars, onmatchVars, tokenizerVars>>

InitCost ==
    /\ pc = "cost"
    /\ ruleA \in CostRules
    /\ ruleB \in CostRules
    /\ costA = DefaultCost /\ costB = DefaultCost
    /\ IdleGraph /\ IdleMatch /\ IdleOnMatch /\ IdleTokenizer

NextCost == ComputeCosts

SpecCost == InitCost /\ [][NextCost]_vars

\* N of the claim: the summed length of the five token fields
N(rule) ==
    Len(rule.prev_classes) + Len(rule.prev_tokens) + Len(rule.tokens)
        + Len(rule.next_tokens) + Len(rule.next_classes)

----------------------------------------------------------------------------
(* C6 *)

\* C6: for two rules A and B, N_A < N_B implies _cost_of(A) > _cost_of(B),
\* and N_A = N_B implies _cost_of(A) = _cost_of(B).
C6_CostDecreasesWithN ==
    pc = "cost_done" =>
        /\ N(ruleA) < N(ruleB) => CostGT(costA, costB)
        /\ N(ruleA) = N(ruleB) => CostEQ(costA, costB)

\* two rules with different fields set, B with more tokens in all
C6_Witness ==
    /\ pc = "cost_done"
    /\ N(ruleA) < N(ruleB)
    /\ ruleA.prev_classes # <<>> /\ ruleB.prev_classes = <<>>
    /\ N(ruleA) >= 2

----------------------------------------------------------------------------
(* _tokenizer_from *)

\* a token is a string, held as its sequence of characters
AlphabetTokens == {<<"a">>, <<"b">>, <<".">>, <<"a", "b">>, <<"b", "a", ".">>}

Alphabets ==
    {l \in SeqsUpTo(AlphabetTokens, MaxAlphabet) :
        \A i, j \in DOMAIN l : l[i] = l[j] => i = j}

\* re.escape: a backslash in front of every special character
RECURSIVE re_escape(_)
re_escape(t) ==
    IF t = <<>> THEN <<>>
    ELSE (IF t[1] = "." THEN <<"\\", ".">> ELSE <<t[1]>>)
             \o re_escape(SubSeq(t, 2, Len(t)))

\* '|'.join(list)
RECURSIVE join(_)
join(l) ==
    IF l = <<>> THEN <<>>
    ELSE IF Len(l) = 1 THEN l[1]
         ELSE l[1] \o <<"|">> \o join(SubSeq(l, 2, Len(l)))

\* line 134: list.sort(key=len, reverse=True), stable
RECURSIVE sort_by_len_reverse(_)
sort_by_len_reverse(l) ==
    IF l = <<>> THEN <<>>
    ELSE LET s == sort_by_len_reverse(SubSeq(l, 1, Len(l) - 1))
             x == l[Len(l)]
             p == Cardinality({i \in DOMAIN s : Len(s[i]) >= Len(x)})
         IN SubSeq(s, 1, p) \o <<x>> \o SubSeq(s, p + 1, Len(s))

\* lines 134-136: the argument list is sorted in place, then compiled
TokenizerFrom ==
    /\ pc = "tokenizer"
    /\ alphabet' = sort_by_len_reverse(alphabet)
    /\ regex' = <<"(">>
                  \o join([i \in DOMAIN alphabet |-> re_escape(alphabet'[i])])
                  \o <<")">>
    /\ pc' = "tokenizer_done"
    /\ UNCHANGED <<raw, rules, graphVars, matchVars, onmatchVars, costVars>>

InitTokenizer ==
    /\ pc = "tokenizer"
    /\ alphabet \in Alphabets
    /\ regex = <<>>
    /\ IdleGraph /\ IdleMatch /\ IdleOnMatch /\ IdleCost

NextTokenizer == TokenizerFrom

SpecTokenizer == InitTokenizer /\ [][NextTokenizer]_vars

----------------------------------------------------------------------------
(* C7 *)

\* C7: no compile step changes an argument it was passed: the token alphabet
\* list of _tokenizer_from, the rule list of _graph_from, the token table
\* and on-match rule list of _onmatch_rules_lookup and the raw rule dicts of
\* _transliteration_rule_of keep their content and their order.
C7_ArgumentsUnchanged ==
    [][/\ alphabet' = alphabet
       /\ raw' = raw
       /\ (pc \in {"graph", "insert", "order"} => rules' = rules)
       /\ om_tokens' = om_tokens
       /\ onmatch_rules' = onmatch_rules
       /\ ruleA' = ruleA /\ ruleB' = ruleB]_vars

====
